---- MODULE Spec2Model ----
(***************************************************************************)
(* TrendPulse: the /api/trends aggregation-and-scoring pipeline            *)
(* (src/api/trends.py) and the /api/alert decision (src/api/alert.py).     *)
(*                                                                         *)
(* Text is a sequence of one-character strings.  Emoji keywords are single *)
(* code points in the source and single elements here ("<rocket>", ...).   *)
(* Sentiment values are integers in hundredths (0.33 is 33).               *)
(***************************************************************************)
EXTENDS Integers, Sequences, FiniteSets, TLC

----------------------------------------------------------------------------
(* Characters and case mapping (str.lower / str.upper, word characters).   *)

UpperCase ==
    << "A","B","C","D","E","F","G","H","I","J","K","L","M",
       "N","O","P","Q","R","S","T","U","V","W","X","Y","Z" >>

LowerCase ==
    << "a","b","c","d","e","f","g","h","i","j","k","l","m",
       "n","o","p","q","r","s","t","u","v","w","x","y","z" >>

Digits == { "0","1","2","3","4","5","6","7","8","9" }

UpperLetters == { UpperCase[i] : i \in 1..26 }

LowerLetters == { LowerCase[i] : i \in 1..26 }

IsUpper(c) == c \in UpperLetters

IsLower(c) == c \in LowerLetters

\* \w of the re module: letters, digits and the underscore
IsWordChar(c) == IsUpper(c) \/ IsLower(c) \/ c \in Digits \/ c = "_"

LowerChar(c) == IF IsUpper(c) THEN LowerCase[CHOOSE i \in 1..26 : UpperCase[i] = c] ELSE c

UpperChar(c) == IF IsLower(c) THEN UpperCase[CHOOSE i \in 1..26 : LowerCase[i] = c] ELSE c

\* str.lower()
Lower(text) == [i \in 1..Len(text) |-> LowerChar(text[i])]

\* str.upper()
Upper(text) == [i \in 1..Len(text) |-> UpperChar(text[i])]

\* the Python test  w in text  on strings: w occurs as a contiguous substring
Contains(text, w) ==
    \E i \in 0..(Len(text) - Len(w)) : \A j \in 1..Len(w) : text[i + j] = w[j]

\* text[:n]
Prefix(text, n) == SubSeq(text, 1, IF Len(text) < n THEN Len(text) ELSE n)

\* str.startswith('$')
StartsWithSigil(text) == Len(text) >= 1 /\ text[1] = "$"

\* str.replace('$', '')
RemoveSigils(text) == SelectSeq(text, LAMBDA c : c # "$")

----------------------------------------------------------------------------
(* Config                                                                  *)

REDDIT_SUBREDDITS == << "wallstreetbets", "cryptocurrency" >>

KNOWN_TICKERS ==
    { <<"N","V","D","A">>, <<"T","S","L","A">>, <<"A","M","D">>, <<"A","A","P","L">>,
      <<"M","S","F","T">>, <<"G","O","O","G","L">>, <<"A","M","Z","N">>, <<"M","E","T","A">>,
      <<"G","M","E">>, <<"A","M","C">>, <<"P","L","T","R">>, <<"S","O","F","I">>,
      <<"H","O","O","D">>, <<"C","O","I","N">>, <<"M","S","T","R">>, <<"S","P","Y">>,
      <<"Q","Q","Q">>, <<"S","M","C","I">>, <<"A","R","M">>, <<"A","V","G","O">>,
      <<"M","U">>, <<"I","N","T","C">>, <<"B","A">>, <<"D","I","S">>,
      <<"N","F","L","X">>, <<"P","Y","P","L">>, <<"B","T","C">>, <<"E","T","H">>,
      <<"S","O","L">>, <<"D","O","G","E">>, <<"X","R","P">>, <<"A","D","A">>,
      <<"D","O","T">>, <<"A","V","A","X">>, <<"M","A","T","I","C">>, <<"L","I","N","K">>,
      <<"S","H","I","B">>, <<"P","E","P","E">>, <<"B","O","N","K">>, <<"W","I","F">>,
      <<"A","R","B">>, <<"O","P">>, <<"S","U","I">>, <<"A","P","T">> }

BULLISH ==
    { <<"m","o","o","n">>, <<"p","u","m","p">>, <<"b","u","l","l","i","s","h">>,
      <<"b","u","y">>, <<"c","a","l","l","s">>, <<"l","o","n","g">>,
      <<"s","q","u","e","e","z","e">>, <<"r","o","c","k","e","t">>, <<"t","e","n","d","i","e","s">>,
      <<"d","i","a","m","o","n","d">>, <<"<rocket>">>, <<"<chart_up>">>,
      <<"<gem>">> }

BEARISH ==
    { <<"d","u","m","p">>, <<"c","r","a","s","h">>, <<"b","e","a","r","i","s","h">>,
      <<"s","e","l","l">>, <<"p","u","t","s">>, <<"s","h","o","r","t">>,
      <<"r","e","k","t">>, <<"r","u","g">>, <<"<chart_down>">>,
      <<"<skull>">>, <<"<bear>">> }

\* the keyword list of fetch_twitter_trends' fallback branch
TREND_KEYWORDS ==
    { <<"s","t","o","c","k">>, <<"c","r","y","p","t","o">>, <<"b","i","t","c","o","i","n">>,
      <<"e","t","h","e","r","e","u","m">>, <<"$">> }

----------------------------------------------------------------------------
(* Ticker Extractor                                                        *)

\* length of the run of uppercase letters of text that starts at position i
RECURSIVE UpperRun(_, _)
UpperRun(text, i) ==
    IF i <= Len(text) /\ IsUpper(text[i]) THEN 1 + UpperRun(text, i + 1) ELSE 0

\* \b between positions i-1 and i (1-based; i = Len+1 is the end of the text)
WordBoundary(text, i) ==
    LET before == i > 1 /\ IsWordChar(text[i - 1])
        after  == i <= Len(text) /\ IsWordChar(text[i])
    IN  before # after

\* TICKER_PATTERN.findall(text) from position i on: '$', then 1 to 5 uppercase
\* letters (greedy, backtracking), then a word boundary.  A greedy run can
\* only end in a boundary at the end of the whole uppercase run.
RECURSIVE TICKER_PATTERN_findall(_, _)
TICKER_PATTERN_findall(text, i) ==
    IF i > Len(text) THEN << >>
    ELSE LET n == UpperRun(text, i + 1)
         IN  IF /\ text[i] = "$"
                /\ \E k \in 1..5 : k <= n /\ WordBoundary(text, i + 1 + k)
             THEN LET k == CHOOSE k \in 1..5 :
                             /\ k <= n /\ WordBoundary(text, i + 1 + k)
                             /\ \A k2 \in (k + 1)..5 :
                                  ~(k2 <= n /\ WordBoundary(text, i + 1 + k2))
                  IN  << SubSeq(text, i + 1, i + k) >>
                        \o TICKER_PATTERN_findall(text, i + 1 + k)
             ELSE TICKER_PATTERN_findall(text, i + 1)

\* TICKER_MENTION.findall(text) from position i on: a word boundary, 2 to 5
\* uppercase letters, a word boundary.
RECURSIVE TICKER_MENTION_findall(_, _)
TICKER_MENTION_findall(text, i) ==
    IF i > Len(text) THEN << >>
    ELSE LET n == UpperRun(text, i)
         IN  IF /\ WordBoundary(text, i)
                /\ \E k \in 2..5 : k <= n /\ WordBoundary(text, i + k)
             THEN LET k == CHOOSE k \in 2..5 :
                             /\ k <= n /\ WordBoundary(text, i + k)
                             /\ \A k2 \in (k + 1)..5 :
                                  ~(k2 <= n /\ WordBoundary(text, i + k2))
                  IN  << SubSeq(text, i, i + k - 1) >>
                        \o TICKER_MENTION_findall(text, i + k)
             ELSE TICKER_MENTION_findall(text, i + 1)

Range(s) == { s[i] : i \in 1..Len(s) }

\* a variant of extract_tickers whose second pass skips the KNOWN_TICKERS test
extract_tickers_unvalidated(text) ==
    { m \in Range(TICKER_PATTERN_findall(text, 1)) : m \in KNOWN_TICKERS }
      \cup Range(TICKER_MENTION_findall(text, 1))

\* the set  tickers  that extract_tickers builds; the function returns
\* list(tickers), whose order is the set's iteration order
extract_tickers(text) ==
    { m \in Range(TICKER_PATTERN_findall(text, 1)) : m \in KNOWN_TICKERS }
      \cup { m \in Range(TICKER_MENTION_findall(text, 1)) : m \in KNOWN_TICKERS }

\* every order list(tickers) can have: the iteration order of a set of
\* strings is unspecified (it varies with the interpreter's string hashing)
ListOrders(S) ==
    { p \in [1..Cardinality(S) -> S] : \A i, j \in 1..Cardinality(S) : i # j => p[i] # p[j] }

----------------------------------------------------------------------------
(* Sentiment Scorer                                                        *)

\* n / den (den > 0) rounded to the nearest integer, ties to even
RoundHalfEven(n, den) ==
    LET q   == n \div den
        r2  == 2 * (n - q * den)
    IN  IF r2 < den THEN q
        ELSE IF r2 > den THEN q + 1
        ELSE IF q % 2 = 0 THEN q ELSE q + 1

\* round(num / den, 2), in hundredths
RoundHundredths(num, den) == RoundHalfEven(100 * num, den)

\* a variant of calc_sentiment that matches the keywords against the text as given
calc_sentiment_case_sensitive(text) ==
    LET bull  == Cardinality({ w \in BULLISH : Contains(text, w) })
        bear  == Cardinality({ w \in BEARISH : Contains(text, w) })
        total == bull + bear
    IN  IF total = 0 THEN 0 ELSE RoundHundredths(bull - bear, total)

calc_sentiment(text) ==
    LET text_lower == Lower(text)
        bull  == Cardinality({ w \in BULLISH : Contains(text_lower, w) })
        bear  == Cardinality({ w \in BEARISH : Contains(text_lower, w) })
        total == bull + bear
    IN  IF total = 0 THEN 0 ELSE RoundHundredths(bull - bear, total)

----------------------------------------------------------------------------
(* Momentum Calculation                                                    *)
(*                                                                         *)
(* The score components are fixed-point numbers in millionths.  avg_score  *)
(* and sentiment are the quotients build_response computes, kept as pairs  *)
(* <<numerator, denominator>>; a sentiment numerator is in hundredths.     *)
(* The arithmetic is exact up to the sixth decimal of log10: the last-bit   *)
(* rounding of the float operations is not represented.                    *)

Micro == 1000 * 1000

\* math.log10(n) to six decimals, in millionths, for n = 1 .. 120
Log10MicroTable ==
    <<       0,  301030,  477121,  602060,  698970,  778151,  845098,  903090,
        954243, 1000000, 1041393, 1079181, 1113943, 1146128, 1176091, 1204120,
       1230449, 1255273, 1278754, 1301030, 1322219, 1342423, 1361728, 1380211,
       1397940, 1414973, 1431364, 1447158, 1462398, 1477121, 1491362, 1505150,
       1518514, 1531479, 1544068, 1556303, 1568202, 1579784, 1591065, 1602060,
       1612784, 1623249, 1633468, 1643453, 1653213, 1662758, 1672098, 1681241,
       1690196, 1698970, 1707570, 1716003, 1724276, 1732394, 1740363, 1748188,
       1755875, 1763428, 1770852, 1778151, 1785330, 1792392, 1799341, 1806180,
       1812913, 1819544, 1826075, 1832509, 1838849, 1845098, 1851258, 1857332,
       1863323, 1869232, 1875061, 1880814, 1886491, 1892095, 1897627, 1903090,
       1908485, 1913814, 1919078, 1924279, 1929419, 1934498, 1939519, 1944483,
       1949390, 1954243, 1959041, 1963788, 1968483, 1973128, 1977724, 1982271,
       1986772, 1991226, 1995635, 2000000, 2004321, 2008600, 2012837, 2017033,
       2021189, 2025306, 2029384, 2033424, 2037426, 2041393, 2045323, 2049218,
       2053078, 2056905, 2060698, 2064458, 2068186, 2071882, 2075547, 2079181 >>

\* math.log10(n) in millionths: the table, and log10(10 n) = 1 + log10(n)
RECURSIVE Log10Micro(_)
Log10Micro(n) ==
    IF n <= Len(Log10MicroTable) THEN Log10MicroTable[n]
    ELSE IF n % 10 = 0 THEN Micro + Log10Micro(n \div 10)
    ELSE Log10MicroTable[n]   \* outside the table: no value

Min(a, b) == IF a < b THEN a ELSE b

Max(a, b) == IF a > b THEN a ELSE b

Abs(a) == IF a < 0 THEN -a ELSE a

\* a variant of the mention score that wraps at 40 instead of stopping there
mention_score_wrapping(mentions) == (Log10Micro(Max(1, mentions)) * 20) % (40 * Micro)

\* min(40, math.log10(max(1, mentions)) * 20)
mention_score(mentions) == Min(40 * Micro, Log10Micro(Max(1, mentions)) * 20)

\* min(30, math.log10(max(1, avg_score)) * 10)
score_score(avg_score) ==
    IF avg_score[1] <= avg_score[2] THEN 0
    ELSE Min(30 * Micro, (Log10Micro(avg_score[1]) - Log10Micro(avg_score[2])) * 10)

\* min(30, (abs(sentiment) + 0.5) * 20)
sentiment_score(sentiment) ==
    Min(30 * Micro, (Abs(sentiment[1]) * 200000) \div sentiment[2] + 10 * Micro)

calc_momentum(mentions, avg_score, sentiment) ==
    LET momentum == (mention_score(mentions) + score_score(avg_score)
                       + sentiment_score(sentiment)) \div Micro
    IN  Max(0, Min(100, momentum))

----------------------------------------------------------------------------
(* Alert Logic (sentiment in hundredths)                                   *)

\* a variant of should_alert whose WATCH threshold is exclusive
should_alert_exclusive(sig, momentum) ==
    IF sig = "BUY" /\ momentum >= 70 THEN TRUE
    ELSE IF sig = "SELL" /\ momentum <= 30 THEN TRUE
    ELSE IF sig = "WATCH" /\ momentum > 80 THEN TRUE
    ELSE FALSE

should_alert(sig, momentum) ==
    IF sig = "BUY" /\ momentum >= 70 THEN TRUE
    ELSE IF sig = "SELL" /\ momentum <= 30 THEN TRUE
    ELSE IF sig = "WATCH" /\ momentum >= 80 THEN TRUE
    ELSE FALSE

\* a variant of determine_signal that tests the WATCH rule before the BUY rule
determine_signal_watch_first(momentum, sentiment) ==
    IF momentum >= 50 /\ sentiment > 0 THEN "WATCH"
    ELSE IF momentum >= 70 /\ sentiment > 20 THEN "BUY"
    ELSE IF momentum <= 30 \/ sentiment < -30 THEN "SELL"
    ELSE "HOLD"

determine_signal(momentum, sentiment) ==
    IF momentum >= 70 /\ sentiment > 20 THEN "BUY"
    ELSE IF momentum <= 30 \/ sentiment < -30 THEN "SELL"
    ELSE IF momentum >= 50 /\ sentiment > 0 THEN "WATCH"
    ELSE "HOLD"

----------------------------------------------------------------------------
(* Reddit aggregation: fetch_reddit_data                                   *)
(*                                                                         *)
(* A dict is a sequence of entries in insertion order, which is the order  *)
(* .items() iterates in.  A post is [sub, title, selftext, score].         *)

\* f"{post.title} {post.selftext or ''}"
PostText(post) == post.title \o << " " >> \o post.selftext

Keys(d) == { d[i].ticker : i \in 1..Len(d) }

\* a variant of the loop body that keeps the subreddit the ticker was first
\* met in
UpdateTicker_first_subreddit(ticker_data, ticker, sentiment, post) ==
    LET d == IF ticker \in Keys(ticker_data) THEN ticker_data
             ELSE Append(ticker_data,
                         [ticker |-> ticker, mentions |-> 0, sentiment_sum |-> 0,
                          scores |-> << >>, posts |-> 0, subreddit |-> ""])
        i == CHOOSE i \in 1..Len(d) : d[i].ticker = ticker
    IN  [d EXCEPT ![i] = [ticker        |-> ticker,
                          mentions      |-> d[i].mentions + 1,
                          sentiment_sum |-> d[i].sentiment_sum + sentiment,
                          scores        |-> Append(d[i].scores, post.score),
                          posts         |-> d[i].posts + 1,
                          subreddit     |-> IF d[i].subreddit = "" THEN post.sub
                                            ELSE d[i].subreddit]]

\* the body of  for ticker in tickers  for one ticker: the defaultdict makes
\* the entry on first access, at the end of the dict
UpdateTicker(ticker_data, ticker, sentiment, post) ==
    LET d == IF ticker \in Keys(ticker_data) THEN ticker_data
             ELSE Append(ticker_data,
                         [ticker |-> ticker, mentions |-> 0, sentiment_sum |-> 0,
                          scores |-> << >>, posts |-> 0, subreddit |-> ""])
        i == CHOOSE i \in 1..Len(d) : d[i].ticker = ticker
    IN  [d EXCEPT ![i] = [ticker        |-> ticker,
                          mentions      |-> d[i].mentions + 1,
                          sentiment_sum |-> d[i].sentiment_sum + sentiment,
                          scores        |-> Append(d[i].scores, post.score),
                          posts         |-> d[i].posts + 1,
                          subreddit     |-> post.sub]]

\* for ticker in tickers, tickers being the list  order
RECURSIVE FoldTickers(_, _, _, _)
FoldTickers(order, sentiment, post, ticker_data) ==
    IF order = << >> THEN ticker_data
    ELSE FoldTickers(Tail(order), sentiment, post,
                     UpdateTicker(ticker_data, Head(order), sentiment, post))

\* for post in posts: every ticker_data the loop can end with, one for each
\* order extract_tickers may return each post's tickers in
RECURSIVE FoldPosts(_, _)
FoldPosts(ps, ticker_data) ==
    IF ps = << >> THEN { ticker_data }
    ELSE LET post == Head(ps)
             text == PostText(post)
         IN  UNION { FoldPosts(Tail(ps),
                               FoldTickers(order, calc_sentiment(text), post, ticker_data)) :
                       order \in ListOrders(extract_tickers(text)) }

\* for sub_name in REDDIT_SUBREDDITS: the listing of each subreddit in turn
PostsInFetchOrder(listing) ==
    SelectSeq(listing, LAMBDA q : q.sub = REDDIT_SUBREDDITS[1])
      \o SelectSeq(listing, LAMBDA q : q.sub = REDDIT_SUBREDDITS[2])

\* the results fetch_reddit_data can return; {} when the client raises
fetch_reddit_data(listing, fails) ==
    IF fails THEN { << >> } ELSE FoldPosts(PostsInFetchOrder(listing), << >>)

----------------------------------------------------------------------------
(* Trend scraping: fetch_twitter_trends                                    *)

\* for ticker in tickers: trends.append({...})
TrendEntries(order, text) ==
    [i \in 1..Len(order) |-> [ticker |-> order[i], trend_text |-> text]]

\* the loop over trend_cards[:30], from the list  trend_list  built so far
RECURSIVE FoldCards(_, _)
FoldCards(items, trend_list) ==
    IF items = << >> THEN { trend_list }
    ELSE LET text    == Head(items)
             tickers == extract_tickers(Upper(text))
         IN  IF text = << >> THEN FoldCards(Tail(items), trend_list)
             ELSE IF tickers # {} THEN
                 UNION { FoldCards(Tail(items), trend_list \o TrendEntries(order, text)) :
                           order \in ListOrders(tickers) }
             ELSE IF \E kw \in TREND_KEYWORDS : Contains(Lower(text), kw) THEN
                 FoldCards(Tail(items),
                           Append(trend_list, [ticker |-> Prefix(text, 10), trend_text |-> text]))
             ELSE FoldCards(Tail(items), trend_list)

\* the results fetch_twitter_trends can return; [] when the request raises
fetch_twitter_trends(trend_cards, fails) ==
    IF fails THEN { << >> } ELSE FoldCards(Prefix(trend_cards, 30), << >>)

----------------------------------------------------------------------------
(* build_response                                                          *)

RECURSIVE SumSeq(_)
SumSeq(s) == IF s = << >> THEN 0 ELSE Head(s) + SumSeq(Tail(s))

\* lines 206-219: one record for each item of reddit_data
RedditRecord(data) ==
    LET avg_sentiment == << data.sentiment_sum, Max(1, data.mentions) >>
        avg_score     == << SumSeq(data.scores), Max(1, Len(data.scores)) >>
    IN  [ticker    |-> << "$" >> \o data.ticker,
         source    |-> "reddit",
         momentum  |-> calc_momentum(data.mentions, avg_score, avg_sentiment),
         mentions  |-> data.mentions,
         sentiment |-> RoundHalfEven(avg_sentiment[1], avg_sentiment[2]),
         subreddit |-> data.subreddit,
         posts     |-> data.posts]

RedditRecords(reddit_data) ==
    [i \in 1..Len(reddit_data) |-> RedditRecord(reddit_data[i])]

\* lines 223-225: twitter_tickers[t['ticker']] += 1, a dict in insertion order
RECURSIVE CountTickers(_, _)
CountTickers(twitter_data, counts) ==
    IF twitter_data = << >> THEN counts
    ELSE LET t == Head(twitter_data).ticker
             c == IF t \in Keys(counts) THEN counts
                  ELSE Append(counts, [ticker |-> t, count |-> 0])
             i == CHOOSE i \in 1..Len(c) : c[i].ticker = t
         IN  CountTickers(Tail(twitter_data),
                          [c EXCEPT ![i] = [ticker |-> t, count |-> c[i].count + 1]])

\* a variant of the trend momentum without the cap of 80
TwitterMomentum_uncapped(ticker, count, reddit_data) ==
    LET momentum == 30 + count * 10
    IN  IF RemoveSigils(ticker) \in Keys(reddit_data)
        THEN Min(95, momentum + 15) ELSE momentum

\* lines 229-233: the trend momentum, boosted when the ticker is on Reddit
TwitterMomentum(ticker, count, reddit_data) ==
    LET momentum == Min(80, 30 + count * 10)
    IN  IF RemoveSigils(ticker) \in Keys(reddit_data)
        THEN Min(95, momentum + 15) ELSE momentum

\* line 236: f"${ticker}" if not ticker.startswith('$') else ticker
TwitterTicker(ticker) ==
    IF ~StartsWithSigil(ticker) THEN << "$" >> \o ticker ELSE ticker

\* lines 227-243
TwitterRecord(entry, reddit_data) ==
    [ticker    |-> TwitterTicker(entry.ticker),
     source    |-> "twitter",
     momentum  |-> TwitterMomentum(entry.ticker, entry.count, reddit_data),
     mentions  |-> entry.count,
     sentiment |-> 10,
     subreddit |-> "None",
     posts     |-> 0]

TwitterRecords(twitter_tickers, reddit_data) ==
    [i \in 1..Len(twitter_tickers) |-> TwitterRecord(twitter_tickers[i], reddit_data)]

\* trends.sort(key=lambda x: x['momentum'], reverse=True): a stable sort,
\* done here by inserting each record behind those of no smaller momentum
RECURSIVE InsertDesc(_, _)
InsertDesc(sorted, t) ==
    IF sorted = << >> THEN << t >>
    ELSE IF Head(sorted).momentum >= t.momentum
         THEN << Head(sorted) >> \o InsertDesc(Tail(sorted), t)
         ELSE << t >> \o sorted

RECURSIVE SortByMomentum(_)
SortByMomentum(records) ==
    IF records = << >> THEN << >>
    ELSE InsertDesc(SortByMomentum(SubSeq(records, 1, Len(records) - 1)),
                    records[Len(records)])

\* a variant of the seen-set key that keeps the ticker's case
DedupeKey_case_sensitive(t) == t.ticker

\* t['ticker'].upper(), the key of the seen set
DedupeKey(t) == Upper(t.ticker)

\* lines 249-255
RECURSIVE Dedupe(_, _)
Dedupe(records, seen) ==
    IF records = << >> THEN << >>
    ELSE LET t == Head(records)
         IN  IF DedupeKey(t) \notin seen
             THEN << t >> \o Dedupe(Tail(records), seen \cup { DedupeKey(t) })
             ELSE Dedupe(Tail(records), seen)

\* a variant that cuts to the top 20 before it removes the duplicates
RankTrends_cut_first(records) == Dedupe(Prefix(SortByMomentum(records), 20), {})

\* lines 245-258: the 'trends' list of the response
RankTrends(records) == Prefix(Dedupe(SortByMomentum(records), {}), 20)

----------------------------------------------------------------------------
(* The /api/trends request as a state machine                              *)

VARIABLES
    listing,          \* the posts the Reddit client yields (hot + rising, all subreddits)
    reddit_fails,     \* whether the Reddit client raises
    trend_cards,      \* the texts of the scraped trend cards, in page order
    twitter_fails,    \* whether the trends request raises
    pc,               \* the position of build_response
    reddit_data,      \* build_response's locals
    twitter_data,
    twitter_tickers,
    trends,
    response,         \* what build_response returns ('updated', a clock reading, left out)
    calls,            \* how many times build_response has run on these observations
    first_response,   \* the response of the first run
    data,             \* the parsed body of a POST /api/alert
    apc,              \* the position of do_POST
    signal,           \* do_POST's locals
    consulted,        \* whether do_POST called determine_signal
    alerting,         \* << >> before the call of should_alert, then << its result >>
    results,
    reply,            \* the JSON body do_POST writes
    arg,              \* the argument of a function applied on its own
    out               \* and its result

tvars == << listing, reddit_fails, trend_cards, twitter_fails, pc, reddit_data,
            twitter_data, twitter_tickers, trends, response, calls, first_response >>

avars == << data, apc, signal, consulted, alerting, results, reply >>

fvars == << arg, out >>

vars == << tvars, avars, fvars >>

\* bounds of the observations
MaxPosts == 2

MaxCards == 2

SeqsUpTo(S, n) == UNION { [1..k -> S] : k \in 0..n }

PostPool ==
    { [sub |-> "wallstreetbets", title |-> <<"B","T","C"," ","E","T","H"," ","m","o","o","n">>, selftext |-> << >>, score |-> 100],
      [sub |-> "cryptocurrency", title |-> <<"$","B","T","C">>, selftext |-> <<"B","T","C"," ","d","u","m","p">>, score |-> 10],
      [sub |-> "wallstreetbets", title |-> <<"I"," ","L","O","V","E"," ","s","t","o","c","k","s">>, selftext |-> << >>, score |-> 0] }

CardPool ==
    { <<"B","i","t","c","o","i","n">>, <<"b","i","t","c","o","i","n">>,
      <<"$","$","s","t","o","c","k","s"," ","t","o","d","a","y">>,
      <<"e","t","h"," ","a","n","d"," ","B","T","C">> }

\* a feed long enough for the 30-card cut and the top-20 cut
LongFeed ==
    << <<"N","V","D","A">>, <<"$","T","S","L","A">>, <<"A","M","D">>,
       <<"A","A","P","L">>, <<"B","T","C">>, <<"M","S","F","T">>,
       <<"N","F","L">>, <<"G","O","O","G","L">>, <<"A","M","Z","N">>,
       <<"B","i","t","c","o","i","n">>, <<"M","E","T","A">>, <<"G","M","E">>,
       <<"E","T","H">>, <<"A","M","C">>, <<"P","L","T","R">>,
       <<"S","O","F","I">>, <<"B","i","t","c","o","i","n">>, <<"H","O","O","D">>,
       << >>, <<"C","O","I","N">>, <<"$","T","S","L","A">>,
       <<"M","S","T","R">>, <<"S","P","Y">>, <<"Q","Q","Q">>,
       <<"S","M","C","I">>, <<"A","R","M">>, <<"A","V","G","O">>,
       <<"M","U">>, <<"B","A">> >>

\* a feed in which one ticker trends often enough for the cap of the trend
\* momentum
HotFeed ==
    << <<"B","T","C">>, <<"B","T","C">>, <<"B","T","C">>,
       <<"B","T","C">>, <<"B","T","C">>, <<"B","T","C">> >>

NoResponse == [trends |-> << >>, sources |-> [reddit |-> 0, twitter |-> 0]]

IdleTrends ==
    /\ listing = << >> /\ reddit_fails = FALSE
    /\ trend_cards = << >> /\ twitter_fails = FALSE
    /\ pc = "idle" /\ reddit_data = << >> /\ twitter_data = << >>
    /\ twitter_tickers = << >> /\ trends = << >>
    /\ response = NoResponse /\ calls = 0 /\ first_response = NoResponse

IdleAlert ==
    /\ data = [signal |-> << >>, momentum |-> << >>, sentiment |-> << >>,
               channels |-> << >>]
    /\ apc = "idle" /\ signal = "" /\ consulted = FALSE /\ alerting = << >>
    /\ results = << >> /\ reply = << >>

IdleFn == arg = << >> /\ out = << >>

Init ==
    /\ reddit_fails \in BOOLEAN
    /\ listing \in (IF reddit_fails THEN { << >> } ELSE SeqsUpTo(PostPool, MaxPosts))
    /\ twitter_fails \in BOOLEAN
    /\ trend_cards \in (IF twitter_fails THEN { << >> }
                        ELSE { head \o tail : head \in { << >>, LongFeed, HotFeed },
                                              tail \in SeqsUpTo(CardPool, MaxCards) })
    /\ pc = "fetch_reddit"
    /\ reddit_data = << >> /\ twitter_data = << >> /\ twitter_tickers = << >>
    /\ trends = << >>
    /\ response = NoResponse /\ calls = 1 /\ first_response = NoResponse
    /\ IdleAlert /\ IdleFn

\* line 205: reddit_data = fetch_reddit_data()
FetchReddit ==
    /\ pc = "fetch_reddit"
    /\ reddit_data' \in fetch_reddit_data(listing, reddit_fails)
    /\ pc' = "reddit_records"
    /\ UNCHANGED << listing, reddit_fails, trend_cards, twitter_fails, twitter_data,
                    twitter_tickers, trends, response, calls, first_response >>
    /\ UNCHANGED << avars, fvars >>

\* lines 206-219
AppendRedditRecords ==
    /\ pc = "reddit_records"
    /\ trends' = trends \o RedditRecords(reddit_data)
    /\ pc' = "fetch_twitter"
    /\ UNCHANGED << listing, reddit_fails, trend_cards, twitter_fails, reddit_data,
                    twitter_data, twitter_tickers, response, calls, first_response >>
    /\ UNCHANGED << avars, fvars >>

\* line 222: twitter_data = fetch_twitter_trends()
FetchTwitter ==
    /\ pc = "fetch_twitter"
    /\ twitter_data' \in fetch_twitter_trends(trend_cards, twitter_fails)
    /\ pc' = "twitter_records"
    /\ UNCHANGED << listing, reddit_fails, trend_cards, twitter_fails, reddit_data,
                    twitter_tickers, trends, response, calls, first_response >>
    /\ UNCHANGED << avars, fvars >>

\* lines 223-243
AppendTwitterRecords ==
    /\ pc = "twitter_records"
    /\ twitter_tickers' = CountTickers(twitter_data, << >>)
    /\ trends' = trends \o TwitterRecords(twitter_tickers', reddit_data)
    /\ pc' = "rank"
    /\ UNCHANGED << listing, reddit_fails, trend_cards, twitter_fails, reddit_data,
                    twitter_data, response, calls, first_response >>
    /\ UNCHANGED << avars, fvars >>

\* lines 245-264
Rank ==
    /\ pc = "rank"
    /\ response' = [trends  |-> RankTrends(trends),
                    sources |-> [reddit |-> Len(reddit_data),
                                 twitter |-> Len(twitter_tickers)]]
    /\ pc' = "done"
    /\ UNCHANGED << listing, reddit_fails, trend_cards, twitter_fails, reddit_data,
                    twitter_data, twitter_tickers, trends, calls, first_response >>
    /\ UNCHANGED << avars, fvars >>

\* a second GET /api/trends over the same observations.  Each request may be
\* served by a fresh interpreter process, and string hashing (so the order of
\* list(tickers)) is randomised per process.
SecondCall ==
    /\ pc = "done" /\ calls = 1
    /\ first_response' = response
    /\ calls' = 2
    /\ pc' = "fetch_reddit"
    /\ reddit_data' = << >> /\ twitter_data' = << >> /\ twitter_tickers' = << >>
    /\ trends' = << >> /\ response' = NoResponse
    /\ UNCHANGED << listing, reddit_fails, trend_cards, twitter_fails >>
    /\ UNCHANGED << avars, fvars >>

Next ==
    \/ FetchReddit
    \/ AppendRedditRecords
    \/ FetchTwitter
    \/ AppendTwitterRecords
    \/ Rank
    \/ SecondCall

Spec == Init /\ [][Next]_vars

----------------------------------------------------------------------------
(* POST /api/alert as a state machine: handler.do_POST                     *)
(*                                                                         *)
(* A key of the JSON body is << >> when the body lacks it and << v >> when *)
(* it carries the value v.  A signal is a string; "null" stands for the    *)
(* JSON null, which json.loads turns into None.                            *)

\* data.get(key, default)
Get(field, default) == IF field = << >> THEN default ELSE field[1]

\* the truth value Python gives data.get('signal'): None and '' are false
Truthy(field) == field # << >> /\ field[1] # "null" /\ field[1] # ""

\* how far the momentum of a request strays outside 0 .. 100
MomentumSlack == 2

MomentumValues == (0 - MomentumSlack)..(100 + MomentumSlack)

SentimentValues == { -100, -50, -31, -30, -29, 0, 1, 10, 20, 21, 30, 100 }

SignalValues == { "null", "", "BUY", "SELL", "WATCH", "HOLD", "STRONG_BUY" }

ChannelValues == { {}, { "discord" }, { "email" }, { "discord", "email" } }

Optional(S) == { << >> } \cup { << v >> : v \in S }

\* lines 153-157
momentum_of(d) == Get(d.momentum, 50)

sentiment_of(d) == Get(d.sentiment, 0)

channels_of(d) == Get(d.channels, { "discord", "email" })

InitAlert ==
    /\ data \in [signal    : Optional(SignalValues),
                 momentum  : Optional(MomentumValues),
                 sentiment : Optional(SentimentValues),
                 channels  : Optional(ChannelValues \ { { "discord", "email" } })]
    /\ apc = "parsed"
    /\ signal = "" /\ consulted = FALSE /\ alerting = << >>
    /\ results = << >> /\ reply = << >>
    /\ IdleTrends /\ IdleFn

\* line 160: signal = data.get('signal') or determine_signal(momentum, sentiment)
ChooseSignal ==
    /\ apc = "parsed"
    /\ IF Truthy(data.signal)
       THEN signal' = data.signal[1] /\ consulted' = FALSE
       ELSE /\ signal' = determine_signal(momentum_of(data), sentiment_of(data))
            /\ consulted' = TRUE
    /\ apc' = "check"
    /\ UNCHANGED << data, alerting, results, reply >>
    /\ UNCHANGED << tvars, fvars >>

\* a variant of the threshold check that trusts a signal the request supplied
CheckThreshold_trusting ==
    /\ apc = "check"
    /\ alerting' = << Truthy(data.signal) \/ should_alert(signal, momentum_of(data)) >>
    /\ IF ~alerting'[1]
       THEN /\ reply' = [sent |-> FALSE, reason |-> "Below alert threshold"]
            /\ apc' = "done"
       ELSE /\ reply' = reply
            /\ apc' = "discord"
    /\ UNCHANGED << data, signal, consulted, results >>
    /\ UNCHANGED << tvars, fvars >>

\* lines 163-171
CheckThreshold ==
    /\ apc = "check"
    /\ alerting' = << should_alert(signal, momentum_of(data)) >>
    /\ IF ~alerting'[1]
       THEN /\ reply' = [sent |-> FALSE, reason |-> "Below alert threshold"]
            /\ apc' = "done"
       ELSE /\ reply' = reply
            /\ apc' = "discord"
    /\ UNCHANGED << data, signal, consulted, results >>
    /\ UNCHANGED << tvars, fvars >>

\* lines 176-177: send_discord returns whether the webhook answered 204
SendDiscord ==
    /\ apc = "discord"
    /\ IF "discord" \in channels_of(data)
       THEN \E ok \in BOOLEAN :
               results' = Append(results, [channel |-> "discord", signal |-> signal, ok |-> ok])
       ELSE results' = results
    /\ apc' = "email"
    /\ UNCHANGED << data, signal, consulted, alerting, reply >>
    /\ UNCHANGED << tvars, fvars >>

\* lines 179-180: send_email returns whether the mail API answered 200
SendEmail ==
    /\ apc = "email"
    /\ IF "email" \in channels_of(data)
       THEN \E ok \in BOOLEAN :
               results' = Append(results, [channel |-> "email", signal |-> signal, ok |-> ok])
       ELSE results' = results
    /\ apc' = "respond"
    /\ UNCHANGED << data, signal, consulted, alerting, reply >>
    /\ UNCHANGED << tvars, fvars >>

\* lines 182-191
Respond ==
    /\ apc = "respond"
    /\ reply' = [sent |-> TRUE, signal |-> signal, channels |-> results]
    /\ apc' = "done"
    /\ UNCHANGED << data, signal, consulted, alerting, results >>
    /\ UNCHANGED << tvars, fvars >>

NextAlert ==
    \/ ChooseSignal
    \/ CheckThreshold
    \/ SendDiscord
    \/ SendEmail
    \/ Respond

SpecAlert == InitAlert /\ [][NextAlert]_vars

----------------------------------------------------------------------------
(* calc_sentiment and extract_tickers applied to a text on their own       *)

\* the longest text, in fragments
MaxFragments == 3

Fragments ==
    { <<"b","u","y">>, <<"M","o","o","n">>, <<"r","u","g">>, <<"s","e","l","l">>,
      <<"$">>, <<"B","A">>, <<"M","U">>, <<" ">>, <<"s">>, << "<rocket>" >> }

RECURSIVE Flatten(_)
Flatten(ss) == IF ss = << >> THEN << >> ELSE Head(ss) \o Flatten(Tail(ss))

Texts == { Flatten(fs) : fs \in SeqsUpTo(Fragments, MaxFragments) }

InitText ==
    /\ arg \in { [text |-> tx] : tx \in Texts }
    /\ out = << >>
    /\ IdleTrends /\ IdleAlert

\* lines 103-104: tickers = extract_tickers(text); sentiment = calc_sentiment(text)
ScoreText ==
    /\ out = << >>
    /\ \E order \in ListOrders(extract_tickers(arg.text)) :
          out' = << [tickers |-> order, sentiment |-> calc_sentiment(arg.text)] >>
    /\ UNCHANGED << arg, tvars, avars >>

NextText == ScoreText

SpecText == InitText /\ [][NextText]_vars

----------------------------------------------------------------------------
(* calc_momentum applied on its own, at two mention counts                 *)

\* mention counts 0 .. MaxMentions, and a few large ones
MaxMentions == 6

MentionValues == 0..MaxMentions \cup { 20, 50, 99, 100, 110, 1000, 10000 }

\* avg_score >= 0 as a quotient
ScoreValues ==
    { << 0, 1 >>, << 1, 2 >>, << 1, 1 >>, << 5, 2 >>, << 10, 1 >>, << 75, 1 >>,
      << 100, 3 >>, << 1000, 1 >>, << 100000, 1 >> }

\* sentiment in [-1, 1], in hundredths
MomentumSentiments ==
    { << s, 1 >> : s \in { -100, -75, -50, -33, -1, 0, 1, 25, 50, 67, 100 } }

InitMomentum ==
    /\ arg \in { [mentions |-> lo, more |-> hi, avg_score |-> a, sentiment |-> s] :
                   lo \in MentionValues, hi \in MentionValues,
                   a \in ScoreValues, s \in MomentumSentiments }
    /\ arg.mentions <= arg.more
    /\ out = << >>
    /\ IdleTrends /\ IdleAlert

ApplyMomentum ==
    /\ out = << >>
    /\ out' = << calc_momentum(arg.mentions, arg.avg_score, arg.sentiment),
                 calc_momentum(arg.more, arg.avg_score, arg.sentiment) >>
    /\ UNCHANGED << arg, tvars, avars >>

NextMomentum == ApplyMomentum

SpecMomentum == InitMomentum /\ [][NextMomentum]_vars

----------------------------------------------------------------------------
(* Properties of the alert decision                                        *)

\* the request's momentum and sentiment, with the defaults of lines 154-155
ReqMomentum == momentum_of(data)

ReqSentiment == sentiment_of(data)

\* the rules of the classification, each with the earlier ones excluded
BuyRule == ReqMomentum >= 70 /\ ReqSentiment > 20

SellRule == ~BuyRule /\ (ReqMomentum <= 30 \/ ReqSentiment < -30)

WatchRule == ~BuyRule /\ ~SellRule /\ ReqMomentum >= 50 /\ ReqSentiment > 0

HoldRule == ~BuyRule /\ ~SellRule /\ ~WatchRule

\* C1: whenever do_POST has classified the request with determine_signal, the
\* signal is the result of the first matching rule in the order BUY (momentum
\* >= 70 and sentiment > 0.2), SELL (momentum <= 30 or sentiment < -0.3),
\* WATCH (momentum >= 50 and sentiment > 0), HOLD; it is one of the four
\* signals; and classify(75, 0.3) = BUY, classify(20, 0.0) = SELL,
\* classify(55, 0.1) = WATCH, classify(50, -0.5) = SELL.
C1_FirstMatchingRule ==
    consulted =>
        /\ signal \in { "BUY", "SELL", "WATCH", "HOLD" }
        /\ (signal = "BUY") <=> BuyRule
        /\ (signal = "SELL") <=> SellRule
        /\ (signal = "WATCH") <=> WatchRule
        /\ (signal = "HOLD") <=> HoldRule
        /\ (ReqMomentum = 75 /\ ReqSentiment = 30) => signal = "BUY"
        /\ (ReqMomentum = 20 /\ ReqSentiment = 0) => signal = "SELL"
        /\ (ReqMomentum = 55 /\ ReqSentiment = 10) => signal = "WATCH"
        /\ (ReqMomentum = 50 /\ ReqSentiment = -50) => signal = "SELL"

\* a request without a signal, momentum 50 and sentiment -0.5, classified SELL
C1_Witness ==
    /\ consulted /\ data.signal = << >>
    /\ data.momentum = << 50 >> /\ data.sentiment = << -50 >>
    /\ signal = "SELL"

\* what C2 says should_alert returns for the chosen signal and the momentum
AlertExpected ==
    \/ signal = "BUY" /\ ReqMomentum >= 70
    \/ signal = "SELL" /\ ReqMomentum <= 30
    \/ signal = "WATCH" /\ ReqMomentum >= 80

\* C2: should_alert(signal, momentum) is true exactly when (signal = BUY and
\* momentum >= 70) or (signal = SELL and momentum <= 30) or (signal = WATCH and
\* momentum >= 80); it is false for HOLD; should_alert(WATCH, 79) is false and
\* should_alert(WATCH, 80) is true.
C2_ShouldAlert ==
    alerting # << >> =>
        /\ alerting[1] <=> AlertExpected
        /\ signal = "HOLD" => ~alerting[1]
        /\ (signal = "WATCH" /\ ReqMomentum = 79) => ~alerting[1]
        /\ (signal = "WATCH" /\ ReqMomentum = 80) => alerting[1]

\* should_alert has answered true for WATCH at momentum 80
C2_Witness == alerting = << TRUE >> /\ signal = "WATCH" /\ ReqMomentum = 80

\* the request carries a signal: the key is there with a string
CarriesSignal == data.signal # << >> /\ data.signal[1] # "null"

\* a delivery happens only after should_alert accepted the chosen signal
ThresholdBeforeDelivery ==
    /\ results # << >> => alerting = << TRUE >> /\ AlertExpected
    /\ \A i \in 1..Len(results) : results[i].signal = signal
    /\ (apc = "done" /\ alerting = << FALSE >>) => results = << >> /\ reply.sent = FALSE

----------------------------------------------------------------------------
(* Properties of the ranked result                                         *)

Ranked == response.trends

\* two tickers are equal case-insensitively
SameTicker(a, b) == Lower(a) = Lower(b)

\* the position of a record in the list build_response sorted
RECURSIVE IndexIn(_, _, _)
IndexIn(records, t, i) ==
    IF i > Len(records) THEN 0
    ELSE IF records[i] = t THEN i ELSE IndexIn(records, t, i + 1)

Encounter(t) == IndexIn(trends, t, 1)

\* t comes before u in the order of the sort: higher momentum first, and
\* among equal momenta the one met first
RanksBefore(t, u) ==
    \/ t.momentum > u.momentum
    \/ t.momentum = u.momentum /\ Encounter(t) < Encounter(u)

DistinctTickers == { Lower(trends[i].ticker) : i \in 1..Len(trends) }

\* C4: the merged result holds no two records whose tickers are equal
\* case-insensitively, and every record it holds is an input record with the
\* highest momentum among all input records of its ticker, whichever source
\* they come from.
C4_DedupeKeepsMax ==
    pc = "done" =>
        /\ \A i, j \in 1..Len(Ranked) :
              i # j => ~SameTicker(Ranked[i].ticker, Ranked[j].ticker)
        /\ \A i \in 1..Len(Ranked) :
              /\ Encounter(Ranked[i]) > 0
              /\ \A k \in 1..Len(trends) :
                    SameTicker(trends[k].ticker, Ranked[i].ticker)
                      => trends[k].momentum <= Ranked[i].momentum

\* a ticker met from both sources with different momenta, the higher one kept,
\* and two input tickers that differ only in case
C4_Witness ==
    /\ pc = "done"
    /\ \E i \in 1..Len(Ranked) : \E k \in 1..Len(trends) :
          /\ SameTicker(trends[k].ticker, Ranked[i].ticker)
          /\ trends[k].source # Ranked[i].source
          /\ trends[k].momentum < Ranked[i].momentum
    /\ \E k, l \in 1..Len(trends) :
          /\ trends[k].ticker # trends[l].ticker
          /\ SameTicker(trends[k].ticker, trends[l].ticker)

\* the parts of C5 that do not depend on how "descending" is read
RankedIsTopOfOrder ==
    /\ \A i, j \in 1..Len(Ranked) :
          (i < j /\ Ranked[i].momentum = Ranked[j].momentum)
            => Encounter(Ranked[i]) < Encounter(Ranked[j])
    /\ Len(Ranked) = Min(20, Cardinality(DistinctTickers))
    \* a kept record is the first of its ticker in the order of the sort
    /\ \A i \in 1..Len(Ranked) : \A k \in 1..Len(trends) :
          (SameTicker(trends[k].ticker, Ranked[i].ticker) /\ trends[k] # Ranked[i])
            => RanksBefore(Ranked[i], trends[k])
    \* a ticker left out ranks behind the twenty kept
    /\ \A k \in 1..Len(trends) :
          (\A i \in 1..Len(Ranked) : ~SameTicker(trends[k].ticker, Ranked[i].ticker))
            => Len(Ranked) = 20 /\ RanksBefore(Ranked[20], trends[k])

\* C5 as stated: the ranked result is strictly descending by momentum, equal
\* momenta in encounter order, and is the first 20 records of the sorted and
\* deduplicated sequence.
C5_AsStated ==
    pc = "done" =>
        /\ \A i \in 1..(Len(Ranked) - 1) : Ranked[i].momentum > Ranked[i + 1].momentum
        /\ RankedIsTopOfOrder

\* C5 (amended): the ranked result is descending by momentum, not strictly:
\* records of equal momentum stand next to each other in their encounter
\* order; it is the first 20 records of the sorted and deduplicated sequence,
\* so it has min(20, number of distinct tickers) records.
C5_RankedOrder ==
    pc = "done" =>
        /\ \A i \in 1..(Len(Ranked) - 1) : Ranked[i].momentum >= Ranked[i + 1].momentum
        /\ RankedIsTopOfOrder

\* more than 20 distinct tickers, cut to 20, with a duplicate among the input
\* records and two kept records of equal momentum
C5_Witness ==
    /\ pc = "done"
    /\ Cardinality(DistinctTickers) > 20 /\ Len(Ranked) = 20
    /\ Cardinality(DistinctTickers) < Len(trends)
    /\ \E i \in 1..19 : Ranked[i].momentum = Ranked[i + 1].momentum

\* C6: every ticker of the result begins with the sigil '$' exactly once.
C6_SigilOnce ==
    pc = "done" =>
        \A i \in 1..Len(Ranked) :
            LET ticker == Ranked[i].ticker
            IN  /\ Len(ticker) >= 1 /\ ticker[1] = "$"
                /\ Len(ticker) >= 2 => ticker[2] # "$"

\* C7: a second run over the same observations returns the same ranked
\* result, record for record and in the same order.
C7_SameResultTwice ==
    (calls = 2 /\ pc = "done") => response.trends = first_response.trends

\* the trend cards the scraper reads, and the ticker its fallback gives one
CardsRead == Prefix(trend_cards, 30)

IsFallbackCard(text) ==
    /\ text # << >>
    /\ extract_tickers(Upper(text)) = {}
    /\ \E kw \in TREND_KEYWORDS : Contains(Lower(text), kw)

\* what C10 says of extract_tickers itself, on the texts of the observations
ExtractsOnlyKnown ==
    /\ \A i \in 1..Len(listing) : extract_tickers(PostText(listing[i])) \subseteq KNOWN_TICKERS
    /\ \A i \in 1..Len(CardsRead) : extract_tickers(Upper(CardsRead[i])) \subseteq KNOWN_TICKERS
    /\ Keys(reddit_data) \subseteq KNOWN_TICKERS
    \* no duplicates: a post counts once for a ticker, however often it names it
    /\ \A i \in 1..Len(reddit_data) :
          reddit_data[i].mentions
            = Cardinality({ k \in 1..Len(listing) :
                              reddit_data[i].ticker \in extract_tickers(PostText(listing[k])) })

\* C10 as stated: extract_tickers returns only symbols of KNOWN_TICKERS, without
\* duplicates, and every ticker of the result, its sigil removed, is in
\* KNOWN_TICKERS.
C10_AsStated ==
    /\ ExtractsOnlyKnown
    /\ pc = "done" =>
          \A i \in 1..Len(Ranked) : RemoveSigils(Ranked[i].ticker) \in KNOWN_TICKERS

\* C10 (amended): extract_tickers returns only symbols of KNOWN_TICKERS, without
\* duplicates; every forum record's ticker, its sigil removed, is in
\* KNOWN_TICKERS; and a trend record's ticker is either in KNOWN_TICKERS or the
\* first 10 characters (behind one sigil) of a trend text that holds no known
\* ticker but a keyword of the fallback.
C10_KnownOrFallback ==
    /\ ExtractsOnlyKnown
    /\ pc = "done" =>
          \A i \in 1..Len(Ranked) :
              \/ RemoveSigils(Ranked[i].ticker) \in KNOWN_TICKERS
              \/ /\ Ranked[i].source = "twitter"
                 /\ \E k \in 1..Len(CardsRead) :
                       /\ IsFallbackCard(CardsRead[k])
                       /\ Ranked[i].ticker \in { Prefix(CardsRead[k], 10),
                                                 << "$" >> \o Prefix(CardsRead[k], 10) }

\* a result with a forum ticker, an extracted trend ticker and a fallback one
C10_Witness ==
    /\ pc = "done"
    /\ \E i, j, k \in 1..Len(Ranked) :
          /\ Ranked[i].source = "reddit"
          /\ Ranked[j].source = "twitter"
          /\ RemoveSigils(Ranked[j].ticker) \in KNOWN_TICKERS
          /\ RemoveSigils(Ranked[k].ticker) \notin KNOWN_TICKERS

----------------------------------------------------------------------------
(* Properties of the aggregation                                           *)

\* the observations in the order fetch_reddit_data folds them
Observations == PostsInFetchOrder(listing)

\* the observations whose extracted ticker set contains the ticker
Naming(ticker) ==
    SelectSeq(Observations, LAMBDA q : ticker \in extract_tickers(PostText(q)))

RECURSIVE SentimentSum(_)
SentimentSum(obs) ==
    IF obs = << >> THEN 0
    ELSE calc_sentiment(PostText(Head(obs))) + SentimentSum(Tail(obs))

EngagementScores(obs) == [j \in 1..Len(obs) |-> obs[j].score]

\* C11: after fetch_reddit_data has folded the observations, every ticker key
\* of the mapping occurs once and has mentions = posts = length of scores =
\* the number of observations whose extracted set contains the ticker (at
\* least one), sentiment_sum the sum of those observations' sentiments,
\* scores their engagement scores in observation order and subreddit the
\* subreddit of the last of them; folding one more observation whose
\* extracted set is empty leaves the whole mapping as it is.
C11_Aggregation ==
    (pc # "fetch_reddit" /\ ~reddit_fails) =>
        /\ \A i, j \in 1..Len(reddit_data) :
              reddit_data[i].ticker = reddit_data[j].ticker => i = j
        /\ \A i \in 1..Len(reddit_data) :
              LET d   == reddit_data[i]
                  obs == Naming(d.ticker)
              IN  /\ Len(obs) >= 1
                  /\ d.mentions = Len(obs)
                  /\ d.posts = Len(obs)
                  /\ Len(d.scores) = Len(obs)
                  /\ d.sentiment_sum = SentimentSum(obs)
                  /\ d.scores = EngagementScores(obs)
                  /\ d.subreddit = obs[Len(obs)].sub
        /\ \A post \in PostPool :
              extract_tickers(PostText(post)) = {}
                => FoldPosts(<< post >>, reddit_data) = { reddit_data }

\* a ticker named by two observations of different subreddits that the
\* listing holds in the other order than they are fetched in, one of them
\* naming it twice
C11_Witness ==
    /\ pc = "reddit_records" /\ ~reddit_fails
    /\ Len(listing) = 2
    /\ listing[1].sub = REDDIT_SUBREDDITS[2] /\ listing[2].sub = REDDIT_SUBREDDITS[1]
    /\ \E i \in 1..Len(reddit_data) :
          /\ reddit_data[i].mentions = 2
          /\ reddit_data[i].scores = << listing[2].score, listing[1].score >>
          /\ reddit_data[i].subreddit = REDDIT_SUBREDDITS[2]
    /\ Range(TICKER_PATTERN_findall(PostText(listing[1]), 1))
          \cap Range(TICKER_MENTION_findall(PostText(listing[1]), 1)) # {}

----------------------------------------------------------------------------
(* Properties of the trend records                                         *)

\* the records build_response made from the trend source
TrendRecords == SelectSeq(trends, LAMBDA t : t.source = "twitter")

\* also_on_forum: the ticker, sigil removed, is a key of the forum aggregation
AlsoOnForum(t) == RemoveSigils(t.ticker) \in Keys(reddit_data)

\* min(80, 30 + 10*c)
TrendBase(c) == IF 30 + 10 * c <= 80 THEN 30 + 10 * c ELSE 80

\* min(95, m + 15)
Boosted(m) == IF m + 15 <= 95 THEN m + 15 ELSE 95

\* C12: every trend record has a feed count c >= 1 and the momentum
\* min(80, 30 + 10*c) when its ticker is not a key of the forum aggregation and
\* min(95, min(80, 30 + 10*c) + 15) when it is; so its momentum is at most 80
\* without forum presence and at most 95 with it, the boost does not lower
\* it, and its sentiment is 0.1.
C12_TrendMomentum ==
    pc \in { "rank", "done" } =>
        \A i \in 1..Len(TrendRecords) :
            LET t == TrendRecords[i]
                c == t.mentions
            IN  /\ c >= 1
                /\ ~AlsoOnForum(t) => t.momentum = TrendBase(c) /\ t.momentum <= 80
                /\ AlsoOnForum(t) =>
                      /\ t.momentum = Boosted(TrendBase(c))
                      /\ t.momentum <= 95
                      /\ t.momentum >= TrendBase(c)
                /\ t.sentiment = 10

\* a trend ticker past the cap that is on the forum too, next to one that is
\* not
C12_Witness ==
    /\ pc = "done"
    /\ \E i, j \in 1..Len(TrendRecords) :
          /\ TrendRecords[i].mentions >= 6
          /\ AlsoOnForum(TrendRecords[i])
          /\ TrendRecords[i].momentum = 95
          /\ ~AlsoOnForum(TrendRecords[j])
          /\ TrendRecords[j].momentum = 40

----------------------------------------------------------------------------
(* Properties of the scores                                                *)

\* C8: calc_momentum is an integer in 0 .. 100, and does not decrease when the
\* mentions grow with avg_score and sentiment held fixed.
C8_MomentumRange ==
    out # << >> =>
        /\ out[1] \in 0..100 /\ out[2] \in 0..100
        /\ out[1] <= out[2]

\* more mentions gave a strictly higher momentum, up to the top of the range
C8_Witness ==
    /\ out # << >>
    /\ arg.mentions < arg.more
    /\ out[1] < out[2] /\ out[2] = 100

BullCount == Cardinality({ w \in BULLISH : Contains(Lower(arg.text), w) })

BearCount == Cardinality({ w \in BEARISH : Contains(Lower(arg.text), w) })

\* C9: calc_sentiment(text) is (bull - bear) / (bull + bear) to 2 decimals, the
\* counts being of the keywords the case-folded text contains; 0.0 when both
\* are zero; 1.0 with bullish keywords only; always in [-1, 1].
C9_Sentiment ==
    out # << >> =>
        LET s == out[1].sentiment
        IN  /\ s \in -100..100
            /\ (BullCount + BearCount = 0) => s = 0
            /\ arg.text = << >> => s = 0
            /\ (BullCount > 0 /\ BearCount = 0) => s = 100
            \* s is the hundredth nearest to the quotient
            /\ (BullCount + BearCount > 0) =>
                  2 * Abs(100 * (BullCount - BearCount) - s * (BullCount + BearCount))
                    <= BullCount + BearCount

\* two bullish keywords (one capitalised) and a bearish one give 0.33
C9_Witness ==
    /\ out # << >>
    /\ BullCount = 2 /\ BearCount = 1
    /\ out[1].sentiment = 33
    /\ arg.text # Lower(arg.text)

====
